---- MODULE Spec2Model ----
(***************************************************************************)
(* Model of createInstantSearchManager                                     *)
(* (packages/react-instantsearch/src/core/createInstantSearchManager.js).  *)
(*                                                                         *)
(* The manager folds the search-parameter contributions of the registered  *)
(* widgets into the parameters of one primary request and of one request   *)
(* per derived index, dispatches them through the helper, and reconciles   *)
(* the asynchronous responses into the store.                              *)
(***************************************************************************)
EXTENDS Naturals, Sequences, FiniteSets, TLC

VARIABLES
    widgets,          \* widgetsManager.getWidgets(): registered widgets, in registration order
    skip,             \* let skip
    initialIndex,     \* initialSearchParameters.index
    helperState,      \* helper.state
    derivedHelpers,   \* let derivedHelpers: targeted index -> parameters its derive() callback returns
    indexMapping,     \* let indexMapping: physical index -> logical index
    store,            \* store.getState()
    cycle,            \* number of search cycles run so far
    inflight,         \* main-search requests dispatched and not yet answered
    facetInflight     \* searchForFacetValues promises not yet settled

vars == <<widgets, skip, initialIndex, helperState, derivedHelpers, indexMapping,
          store, cycle, inflight, facetInflight>>

(***************************************************************************)
(* Bounds of the model.                                                    *)
(***************************************************************************)
MaxCycles == 3
MaxFacetInflight == 2
MaxComposed == 2

(***************************************************************************)
(* Values.                                                                 *)
(***************************************************************************)
None == "none"

\* the indexName the manager is created with
IndexName == "p"

\* index names a widget can declare as its target (context or prop)
TargetIndices == {"p", "a", "b"}

\* index names a widget's getSearchParameters can set on the parameters
SetIndices == {"s"}

\* index names handed to updateIndex
NewIndices == {"s"}

\* the key JavaScript uses for obj[undefined]
Undefined == "undefined"

\* A widget: gsp = it has getSearchParameters, meta = it has getMetadata,
\* ctx = context.multiIndexContext.targetedIndex (None: no multiIndexContext),
\* prop = props.indexName (None: no such prop), setIndex = the index its
\* getSearchParameters sets on the parameters ("keep": it leaves the index).
Widget(gsp, meta, ctx, prop, setIndex) ==
    [gsp |-> gsp, meta |-> meta, ctx |-> ctx, prop |-> prop, setIndex |-> setIndex]

\* every widget shape: all combinations of context, prop and contribution
AllWidgets ==
    { Widget(g, FALSE, c, p, s) :
        g \in BOOLEAN,
        c \in {None} \cup TargetIndices, p \in {None} \cup TargetIndices,
        s \in {"keep"} \cup SetIndices }

\* the widget instances the rendering layer registers: a refinement widget
\* outside any multi-index context, the widget of an <Index> on index "a"
\* (it sets the index), and a sort-by widget inside an <Index> on the
\* primary index (it switches the index to the replica "s")
Refinement   == Widget(TRUE, TRUE, None, None, "keep")
IndexA       == Widget(TRUE, FALSE, "a", None, "a")
SortByInMain == Widget(TRUE, FALSE, "p", None, "s")
Catalog == {Refinement, IndexA, SortByInMain}

\* search states handed to onExternalStateUpdate
SearchStates == {"st1"}

\* facet names and queries handed to onSearchForFacetValues
FacetNames == {"brand", "category", "query"}
FacetQueries == {"q1", "q2"}

(***************************************************************************)
(* Parameter composition: getSearchParameters.                             *)
(***************************************************************************)
\* widget.getSearchParameters(res): the widget may set the index; the trail
\* records which widgets were applied, in order
ApplyWidget(res, w) ==
    [index |-> IF w.setIndex = "keep" THEN res.index ELSE w.setIndex,
     trail |-> Append(res.trail, w)]

\* ws.reduce((res, widget) => widget.getSearchParameters(res), init)
RECURSIVE Reduce(_, _)
Reduce(ws, init) ==
    IF ws = <<>> THEN init
    ELSE Reduce(Tail(ws), ApplyWidget(init, Head(ws)))

HasGSP(w) == w.gsp

\* the shared filter looking at the multi-index context only
InSharedFilterIgnoringProp(w) == w.ctx = None

\* the shared filter taking every widget outside the derived filter
InSharedFilterOrPrimaryContext(w) ==
    ~((w.ctx # None /\ w.ctx # IndexName) \/ (w.prop # None /\ w.prop # IndexName))

InSharedFilter(w) ==
    /\ w.ctx = None
    /\ (w.prop = IndexName \/ w.prop = None)

InDerivedFilter(w) ==
    \/ (w.ctx # None /\ w.ctx # IndexName)
    \/ (w.prop # None /\ w.prop # IndexName)

InMainFilter(w) ==
    \/ (w.ctx # None /\ w.ctx = IndexName)
    \/ (w.prop # None /\ w.prop = IndexName)

SharedWidgets(ws) == SelectSeq(SelectSeq(ws, HasGSP), InSharedFilter)
MainWidgets(ws) == SelectSeq(SelectSeq(ws, HasGSP), InMainFilter)

TargetedIndex(w) == IF w.ctx # None THEN w.ctx ELSE w.prop

\* the reduce of lines 97-108: one {targetedIndex, widgets} entry per
\* distinct targeted index, in order of first appearance
RECURSIVE GroupWidgets(_, _)
GroupWidgets(ws, indices) ==
    IF ws = <<>> THEN indices
    ELSE LET w == Head(ws)
             t == TargetedIndex(w)
             found == {i \in 1..Len(indices) : indices[i].targetedIndex = t}
         IN  IF found # {}
             THEN LET i == CHOOSE j \in found : \A k \in found : j <= k
                  IN  GroupWidgets(Tail(ws),
                        [indices EXCEPT ![i].widgets = Append(@, w)])
             ELSE GroupWidgets(Tail(ws),
                        Append(indices, [targetedIndex |-> t, widgets |-> <<w>>]))

DerivatedWidgets(ws) ==
    GroupWidgets(SelectSeq(SelectSeq(ws, HasGSP), InDerivedFilter), <<>>)

InitialSearchParameters(index) == [index |-> index, trail |-> <<>>]

SharedParameters(ws, index) ==
    Reduce(SharedWidgets(ws), InitialSearchParameters(index))

MainIndexParameters(ws, index) ==
    Reduce(MainWidgets(ws), SharedParameters(ws, index))

\* the parameters the derive() callback of a group returns (lines 141-148)
DerivedParameters(group, shared) == Reduce(group.widgets, shared)

\* indexMapping after getSearchParameters: reset, then the shared index
MappingAfterCompose(ws, index) ==
    (SharedParameters(ws, index).index :> IndexName)

\* indexMapping after helper.search() has called every derive() callback,
\* in the order the derived helpers were created
RECURSIVE MappingAfterDerive(_, _, _)
MappingAfterDerive(groups, shared, mapping) ==
    IF groups = <<>> THEN mapping
    ELSE LET g == Head(groups)
             key == DerivedParameters(g, shared).index
             rest == [k \in DOMAIN mapping \ {key} |-> mapping[k]]
         IN  MappingAfterDerive(Tail(groups), shared,
                                rest @@ (key :> g.targetedIndex))

SeqRange(s) == {s[i] : i \in 1..Len(s)}

(***************************************************************************)
(* The store.                                                              *)
(***************************************************************************)
Null == "null"
EmptyFn == <<>>

\* the place of a request or response where there is none
NoContent == [helper |-> None, target |-> None, index |-> None]

\* results shapes: null, a single response (a SearchResults object), or a
\* plain object mapping index -> response
NullResults == [shape |-> "null", content |-> NoContent, byIndex |-> EmptyFn]
MonoResults(content) == [shape |-> "mono", content |-> content, byIndex |-> EmptyFn]
MultiResults(byIndex) == [shape |-> "multi", content |-> NoContent, byIndex |-> byIndex]

\* the state has no resultsFacetValues field
Absent == [present |-> FALSE, byKey |-> EmptyFn]

InitStore ==
    [widgets |-> "st0",
     metadata |-> <<>>,
     results |-> NullResults,
     error |-> Null,
     searching |-> FALSE,
     searchingForFacetValues |-> FALSE,
     resultsFacetValues |-> Absent]

\* getMetadata(state)
GetMetadata(ws, state) ==
    LET HasMeta(w) == w.meta
        withMeta == SelectSeq(ws, HasMeta)
    IN  [i \in 1..Len(withMeta) |-> [widget |-> withMeta[i], state |-> state]]

(***************************************************************************)
(* search()                                                                *)
(***************************************************************************)
\* A request in flight: the helper it was sent for ("main" or "derived"), the
\* logical index that helper stands for, the physical index queried, and
\* whether it belongs to the latest search() (current) or to an earlier one.
PrimaryRequest(ws, index) ==
    [helper |-> "main", target |-> IndexName,
     index |-> MainIndexParameters(ws, index).index, current |-> TRUE]

DerivedRequests(ws, index) ==
    LET groups == DerivatedWidgets(ws)
        shared == SharedParameters(ws, index)
    IN  { [helper |-> "derived",
           target |-> groups[i].targetedIndex,
           index |-> DerivedParameters(groups[i], shared).index,
           current |-> TRUE] :
          i \in 1..Len(groups) }

\* the requests of earlier cycles stay in flight
Outdated(requests) == {[r EXCEPT !.current = FALSE] : r \in requests}

\* search() without the test of skip
SearchIgnoringSkip(ws, index) ==
    LET groups == DerivatedWidgets(ws)
        shared == SharedParameters(ws, index)
    IN  /\ cycle < MaxCycles
        /\ cycle' = cycle + 1
        /\ derivedHelpers' =
             [t \in {groups[i].targetedIndex : i \in 1..Len(groups)} |->
                LET g == CHOOSE x \in SeqRange(groups) : x.targetedIndex = t
                IN  DerivedParameters(g, shared)]
        /\ helperState' = MainIndexParameters(ws, index)
        /\ indexMapping' =
             MappingAfterDerive(groups, shared, MappingAfterCompose(ws, index))
        /\ inflight' = Outdated(inflight)
               \cup {PrimaryRequest(ws, index)}
               \cup DerivedRequests(ws, index)

\* search() composing the parameters before it looks at skip
SearchComposingWhenSkipped(ws, index) ==
    LET groups == DerivatedWidgets(ws)
        shared == SharedParameters(ws, index)
    IN  IF ~skip
        THEN /\ cycle < MaxCycles
             /\ cycle' = cycle + 1
             /\ derivedHelpers' =
                  [t \in {groups[i].targetedIndex : i \in 1..Len(groups)} |->
                     LET g == CHOOSE x \in SeqRange(groups) : x.targetedIndex = t
                     IN  DerivedParameters(g, shared)]
             /\ helperState' = MainIndexParameters(ws, index)
             /\ indexMapping' =
                  MappingAfterDerive(groups, shared, MappingAfterCompose(ws, index))
             /\ inflight' = Outdated(inflight)
                    \cup {PrimaryRequest(ws, index)}
                    \cup DerivedRequests(ws, index)
        ELSE /\ indexMapping' = MappingAfterCompose(ws, index)
             /\ UNCHANGED <<derivedHelpers, helperState, cycle, inflight>>

\* search() with the widgets ws and initialSearchParameters.index = index
Search(ws, index) ==
    IF ~skip
    THEN LET groups == DerivatedWidgets(ws)
             shared == SharedParameters(ws, index)
             dispatched == Outdated(inflight)
                    \cup {PrimaryRequest(ws, index)}
                    \cup DerivedRequests(ws, index)
         IN  /\ cycle < MaxCycles
             /\ cycle' = cycle + 1
             /\ derivedHelpers' =
                  [t \in {groups[i].targetedIndex : i \in 1..Len(groups)} |->
                     LET g == CHOOSE x \in SeqRange(groups) : x.targetedIndex = t
                     IN  DerivedParameters(g, shared)]
             /\ helperState' = MainIndexParameters(ws, index)
             /\ indexMapping' =
                  MappingAfterDerive(groups, shared, MappingAfterCompose(ws, index))
             /\ inflight' = dispatched
    ELSE UNCHANGED <<derivedHelpers, helperState, indexMapping, cycle, inflight>>

(***************************************************************************)
(* Operations of the manager.                                              *)
(***************************************************************************)
SkipSearch ==
    /\ ~skip
    /\ skip' = TRUE
    /\ UNCHANGED <<widgets, initialIndex, helperState, derivedHelpers,
                   indexMapping, store, cycle, inflight, facetInflight>>

UpdateClient ==
    /\ Search(widgets, initialIndex)
    /\ UNCHANGED <<widgets, skip, initialIndex, store, facetInflight>>

ClearCache ==
    /\ Search(widgets, initialIndex)
    /\ UNCHANGED <<widgets, skip, initialIndex, store, facetInflight>>

UpdateIndex(newIndex) ==
    /\ initialIndex' = newIndex
    /\ Search(widgets, newIndex)
    /\ UNCHANGED <<widgets, skip, store, facetInflight>>

\* onWidgetsUpdate with the registry holding ws
OnWidgetsUpdate(ws) ==
    /\ store' = [store EXCEPT !.metadata = GetMetadata(ws, store.widgets),
                              !.searching = TRUE]
    /\ Search(ws, initialIndex)

\* a widget is registered; the registry calls onWidgetsUpdate
RegisterWidget(w) ==
    /\ w \notin SeqRange(widgets)
    /\ widgets' = Append(widgets, w)
    /\ OnWidgetsUpdate(widgets')
    /\ UNCHANGED <<skip, initialIndex, facetInflight>>

\* a widget is unregistered; the registry calls onWidgetsUpdate
UnregisterWidget(i) ==
    /\ i \in 1..Len(widgets)
    /\ widgets' = SubSeq(widgets, 1, i - 1) \o SubSeq(widgets, i + 1, Len(widgets))
    /\ OnWidgetsUpdate(widgets')
    /\ UNCHANGED <<skip, initialIndex, facetInflight>>

OnExternalStateUpdate(nextSearchState) ==
    /\ store' = [store EXCEPT !.widgets = nextSearchState,
                              !.metadata = GetMetadata(widgets, nextSearchState),
                              !.searching = TRUE]
    /\ Search(widgets, initialIndex)
    /\ UNCHANGED <<widgets, skip, initialIndex, facetInflight>>

(***************************************************************************)
(* Responses of the main search.                                           *)
(***************************************************************************)
\* the response content of a request: content.index is the index queried
Content(r) == [helper |-> r.helper, target |-> r.target, index |-> r.index]

\* indexMapping[content.index], undefined when the key is missing
MappedIndex(index) ==
    IF index \in DOMAIN indexMapping THEN indexMapping[index] ELSE Undefined

\* results[key] = content on a plain object
SetKey(byIndex, key, content) ==
    [k \in (DOMAIN byIndex) \cup {key} |->
        IF k = key THEN content ELSE byIndex[k]]

\* handleSearchSuccess without the reset of a single response to {}
ReconciledResultsWithoutReset(content) ==
    LET results0 == IF store.results.shape # "null" THEN store.results
                    ELSE MultiResults(EmptyFn)
    IN  IF derivedHelpers # EmptyFn
        THEN [results0 EXCEPT
                !.byIndex = SetKey(@, MappedIndex(content.index), content)]
        ELSE MonoResults(content)

\* the results handleSearchSuccess computes (lines 161-172)
ReconciledResults(content) ==
    LET results0 == IF store.results.shape # "null" THEN store.results
                    ELSE MultiResults(EmptyFn)
        results1 == IF derivedHelpers # EmptyFn /\ results0.shape = "mono"
                    THEN MultiResults(EmptyFn)
                    ELSE results0
    IN  IF derivedHelpers # EmptyFn
        THEN [results1 EXCEPT
                !.byIndex = SetKey(@, MappedIndex(content.index), content)]
        ELSE MonoResults(content)

\* The results object a reader obtained from store.getState().results before
\* handleSearchSuccess(content) ran, as that reader sees it afterwards. With
\* a derived helper and results already a plain object, `results` is that
\* very object (lines 162, 166) and line 169 writes the entry into it; in
\* every other case the handler works on a fresh object or on content.
ResultsHeldBySnapshot(content) ==
    IF derivedHelpers # EmptyFn /\ store.results.shape = "multi"
    THEN [store.results EXCEPT
            !.byIndex = SetKey(@, MappedIndex(content.index), content)]
    ELSE store.results

HandleSearchSuccess(r) ==
    /\ r \in inflight
    /\ inflight' = inflight \ {r}
    /\ store' = [store EXCEPT !.results = ReconciledResults(Content(r)),
                              !.searching = FALSE,
                              !.error = Null,
                              !.resultsFacetValues = Absent]
    /\ UNCHANGED <<widgets, skip, initialIndex, helperState, derivedHelpers,
                   indexMapping, cycle, facetInflight>>

SearchError == "searchError"

\* handleSearchError dropping the results
ErrorStateClearsResults(error) ==
    [store EXCEPT !.error = error,
                  !.searching = FALSE,
                  !.results = NullResults,
                  !.resultsFacetValues = Absent]

\* handleSearchError leaving the searching flag
ErrorStateKeepsSearching(error) ==
    [store EXCEPT !.error = error,
                  !.resultsFacetValues = Absent]

\* handleSearchError without the omit of resultsFacetValues
ErrorStateKeepsFacetValues(error) ==
    [store EXCEPT !.error = error,
                  !.searching = FALSE]

\* the state handleSearchError sets (lines 187-194)
ErrorState(error) ==
    [store EXCEPT !.error = error,
                  !.searching = FALSE,
                  !.resultsFacetValues = Absent]

\* handleSearchError disconnecting the other requests of the cycle
HandleSearchErrorDisconnectsCycle(r) ==
    /\ r \in inflight
    /\ inflight' = {q \in inflight : ~q.current}
    /\ store' = ErrorState(SearchError)
    /\ UNCHANGED <<widgets, skip, initialIndex, helperState, derivedHelpers,
                   indexMapping, cycle, facetInflight>>

HandleSearchError(r) ==
    /\ r \in inflight
    /\ inflight' = inflight \ {r}
    /\ store' = ErrorState(SearchError)
    /\ UNCHANGED <<widgets, skip, initialIndex, helperState, derivedHelpers,
                   indexMapping, cycle, facetInflight>>

\* the response of a request of an earlier cycle whose result path was
\* disconnected: it reaches no handler
DropStale(r) ==
    /\ r \in inflight
    /\ ~r.current
    /\ inflight' = inflight \ {r}
    /\ UNCHANGED <<widgets, skip, initialIndex, helperState, derivedHelpers,
                   indexMapping, store, cycle, facetInflight>>

(***************************************************************************)
(* onSearchForFacetValues                                                  *)
(***************************************************************************)
FacetRequest(facetName, query) == [facetName |-> facetName, query |-> query]

\* values of the resultsFacetValues object: content.facetHits of a request,
\* or a query string
FacetHits(r) == [kind |-> "hits", facetName |-> r.facetName, query |-> r.query]
QueryValue(q) == [kind |-> "query", facetName |-> None, query |-> q]

OnSearchForFacetValues(facetName, query) ==
    /\ Cardinality(facetInflight) < MaxFacetInflight
    /\ FacetRequest(facetName, query) \notin facetInflight
    /\ store' = [store EXCEPT !.searchingForFacetValues = TRUE]
    /\ facetInflight' = facetInflight \cup {FacetRequest(facetName, query)}
    /\ UNCHANGED <<widgets, skip, initialIndex, helperState, derivedHelpers,
                   indexMapping, cycle, inflight>>

\* {...resultsFacetValues, [facetName]: content.facetHits, query}
MergeFacetValues(old, r) ==
    LET withHits == [k \in (DOMAIN old) \cup {r.facetName} |->
                        IF k = r.facetName THEN FacetHits(r) ELSE old[k]]
    IN  [k \in (DOMAIN withHits) \cup {"query"} |->
            IF k = "query" THEN QueryValue(r.query) ELSE withHits[k]]

\* the promise of searchForFacetValues resolves
FacetValuesSuccess(r) ==
    /\ r \in facetInflight
    /\ facetInflight' = facetInflight \ {r}
    /\ store' = [store EXCEPT
            !.resultsFacetValues =
                [present |-> TRUE,
                 byKey |-> MergeFacetValues(store.resultsFacetValues.byKey, r)],
            !.searchingForFacetValues = FALSE]
    /\ UNCHANGED <<widgets, skip, initialIndex, helperState, derivedHelpers,
                   indexMapping, cycle, inflight>>

FacetError == "facetError"

\* the rejection handler clearing the flag of the main search as well
FacetErrorStateClearsSearching(error) ==
    [store EXCEPT !.error = error,
                  !.searching = FALSE,
                  !.searchingForFacetValues = FALSE]

\* the state the rejection handler sets (lines 258-262)
FacetErrorState(error) ==
    [store EXCEPT !.error = error, !.searchingForFacetValues = FALSE]

\* the promise of searchForFacetValues rejects
FacetValuesError(r) ==
    /\ r \in facetInflight
    /\ facetInflight' = facetInflight \ {r}
    /\ store' = FacetErrorState(FacetError)
    /\ UNCHANGED <<widgets, skip, initialIndex, helperState, derivedHelpers,
                   indexMapping, cycle, inflight>>

(***************************************************************************)
(* Specification of the search cycle.                                      *)
(***************************************************************************)
Init ==
    /\ widgets = <<>>
    /\ skip = FALSE
    /\ initialIndex = IndexName
    /\ helperState = InitialSearchParameters(IndexName)
    /\ derivedHelpers = EmptyFn
    /\ indexMapping = EmptyFn
    /\ store = InitStore
    /\ cycle = 0
    /\ inflight = {}
    /\ facetInflight = {}

Next ==
    \/ SkipSearch
    \/ UpdateClient
    \/ ClearCache
    \/ \E i \in NewIndices : UpdateIndex(i)
    \/ \E w \in Catalog : RegisterWidget(w)
    \/ \E i \in 1..Len(widgets) : UnregisterWidget(i)
    \/ \E s \in SearchStates : OnExternalStateUpdate(s)
    \/ \E r \in inflight : HandleSearchSuccess(r)
    \/ \E r \in inflight : HandleSearchError(r)
    \/ \E r \in inflight : DropStale(r)

Spec == Init /\ [][Next]_vars

\* the search client answers: some request in flight gets its response
Respond ==
    \E r \in inflight : HandleSearchSuccess(r) \/ HandleSearchError(r)

\* the search cycle with a search client that keeps answering
LiveSpec == Spec /\ WF_vars(Respond)

(***************************************************************************)
(* Specification of the facet-value path, run concurrently with search     *)
(* cycles over a multi-index widget.                                       *)
(***************************************************************************)
FacetNext ==
    \/ \E f \in FacetNames, q \in FacetQueries : OnSearchForFacetValues(f, q)
    \/ \E r \in facetInflight : FacetValuesSuccess(r)
    \/ \E r \in facetInflight : FacetValuesError(r)
    \/ RegisterWidget(IndexA)
    \/ \E s \in SearchStates : OnExternalStateUpdate(s)
    \/ \E r \in inflight : HandleSearchSuccess(r)
    \/ \E r \in inflight : HandleSearchError(r)

FacetSpec == Init /\ [][FacetNext]_vars

(***************************************************************************)
(* Specification of the parameter composition: search() over every list    *)
(* of up to MaxComposed widgets of any shape.                              *)
(***************************************************************************)
WidgetLists ==
    UNION { [1..n -> AllWidgets] : n \in 0..MaxComposed }

ComposeInit ==
    /\ widgets \in WidgetLists
    /\ skip = FALSE
    /\ initialIndex = IndexName
    /\ helperState = InitialSearchParameters(IndexName)
    /\ derivedHelpers = EmptyFn
    /\ indexMapping = EmptyFn
    /\ store = InitStore
    /\ cycle = 0
    /\ inflight = {}
    /\ facetInflight = {}

ComposeNext == cycle = 0 /\ UpdateClient

ComposeSpec == ComposeInit /\ [][ComposeNext]_vars

(***************************************************************************)
(* Properties.                                                             *)
(***************************************************************************)
\* C1: at the moment the requests of a cycle are dispatched, indexMapping has
\* a key for the physical index of the primary request and for the physical
\* index of every derived request.
C1_MappingCoversDispatched ==
    \A r \in inflight : r.current => r.index \in DOMAIN indexMapping

\* the keys of two results mappings that were added or whose value changed
ChangedKeys(old, new) ==
    {k \in DOMAIN new : k \notin DOMAIN old \/ old[k] # new[k]}
      \cup {k \in DOMAIN old : k \notin DOMAIN new}

\* C2: in a cycle with at least one derived group, a successful response of
\* that cycle is stored in results under the logical index name of the request
\* it answers (the target index of its group, or the manager's index name),
\* and under no other key.
C2_StoredUnderLogicalName ==
    [][\A r \in inflight :
          (r.current /\ derivedHelpers # EmptyFn /\ HandleSearchSuccess(r))
          => /\ store'.results.shape = "multi"
             /\ r.target \in DOMAIN store'.results.byIndex
             /\ store'.results.byIndex[r.target] = Content(r)
             /\ ChangedKeys(IF store.results.shape = "multi"
                              THEN store.results.byIndex ELSE EmptyFn,
                            store'.results.byIndex) \subseteq {r.target}]_vars

\* C3: a response reconciled in a cycle without derived groups becomes the
\* results as a single response; in a following cycle with a derived group
\* the derived response replaces that single response by the mapping holding
\* only target -> response, and the primary response is stored under the
\* manager's index name.
C3_ShapeTransition ==
    [][\A r \in inflight :
          (r.current /\ HandleSearchSuccess(r))
          => /\ derivedHelpers = EmptyFn
                   => store'.results = MonoResults(Content(r))
             /\ (derivedHelpers # EmptyFn /\ r.helper = "derived"
                    /\ store.results.shape = "mono")
                   => store'.results = MultiResults(r.target :> Content(r))
             /\ (derivedHelpers # EmptyFn /\ r.helper = "main")
                   => /\ store'.results.shape = "multi"
                      /\ IndexName \in DOMAIN store'.results.byIndex
                      /\ store'.results.byIndex[IndexName] = Content(r)]_vars

\* every request of the latest cycle has been answered
CycleCompleted == cycle > 0 /\ \A r \in inflight : ~r.current

\* C4 as stated: once the latest cycle has completed, results is a mapping
\* by index exactly if that cycle had a derived group.
C4_ShapeIffDerivedInCompletedCycle ==
    CycleCompleted => (store.results.shape = "multi" <=> derivedHelpers # EmptyFn)

\* C4 amended: handleSearchSuccess leaves results a mapping by index exactly
\* if a derived helper exists when it runs, and handleSearchError leaves the
\* shape of results as it was.
C4_ShapeFollowsDerivedHelpers ==
    [][\A r \in inflight :
          /\ HandleSearchSuccess(r)
                => (store'.results.shape = "multi" <=> derivedHelpers # EmptyFn)
          /\ HandleSearchSuccess(r) /\ derivedHelpers = EmptyFn
                => store'.results.shape = "mono"
          /\ HandleSearchError(r)
                => store'.results.shape = store.results.shape]_vars

\* a response was reconciled into a mapping after a single response
C4_Witness ==
    /\ store.results.shape = "multi"
    /\ derivedHelpers # EmptyFn
    /\ cycle >= 2
    /\ store.error = SearchError

\* C6: a successful response of an earlier cycle whose physical index is not
\* a key of the current indexMapping adds no entry to results under an
\* unknown name and leaves the entries of results as they were.
C6_StaleResponseTolerated ==
    [][\A r \in inflight :
          (~r.current /\ r.index \notin DOMAIN indexMapping
             /\ HandleSearchSuccess(r))
          => /\ Undefined \notin DOMAIN store'.results.byIndex
             /\ \A k \in DOMAIN store.results.byIndex :
                   /\ k \in DOMAIN store'.results.byIndex
                   /\ store'.results.byIndex[k] = store.results.byIndex[k]]_vars

\* C7: handleSearchError stores the error, clears searching and leaves
\* results as they were.
C7_ErrorKeepsResults ==
    [][\A r \in inflight :
          HandleSearchError(r)
          => /\ store'.error = SearchError
             /\ store'.searching = FALSE
             /\ store'.results = store.results]_vars

\* an error is recorded next to the results of an earlier success
C7_Witness ==
    /\ store.error = SearchError
    /\ ~store.searching
    /\ store.results.shape # "null"

\* C5: every widget with a parameter contribution is folded exactly once:
\* in the shared fold, in the fold of the primary index, or in one derived
\* group.
Occurrences(w, ws) == Cardinality({i \in 1..Len(ws) : ws[i] = w})

RECURSIVE GroupOccurrences(_, _)
GroupOccurrences(w, groups) ==
    IF groups = <<>> THEN 0
    ELSE Occurrences(w, Head(groups).widgets) + GroupOccurrences(w, Tail(groups))

FoldCount(w, ws) ==
    Occurrences(w, SharedWidgets(ws))
      + Occurrences(w, MainWidgets(ws))
      + GroupOccurrences(w, DerivatedWidgets(ws))

C5_FoldedExactlyOnce ==
    cycle > 0 =>
        \A i \in 1..Len(widgets) :
            widgets[i].gsp =>
                FoldCount(widgets[i], widgets) = Occurrences(widgets[i], widgets)

FacetStep ==
    \/ \E f \in FacetNames, q \in FacetQueries : OnSearchForFacetValues(f, q)
    \/ \E r \in facetInflight : FacetValuesSuccess(r)
    \/ \E r \in facetInflight : FacetValuesError(r)

\* C9: no step of the facet-value path changes results, metadata or
\* searching (nor the widgets state); it changes only
\* searchingForFacetValues, resultsFacetValues and error.
C9_FacetPathIsolated ==
    [][FacetStep
        => /\ store'.results = store.results
           /\ store'.metadata = store.metadata
           /\ store'.searching = store.searching
           /\ store'.widgets = store.widgets]_vars

\* a facet-value search failed while a main search was in flight
C9_Witness ==
    /\ store.error = FacetError
    /\ store.searching
    /\ store.results.shape # "null"
    /\ inflight # {}

\* C10: issuing a facet-value search sets searchingForFacetValues; its
\* success stores the hits under the facet name together with the query of
\* that request, keeps the hits stored for other facet names, and clears
\* searchingForFacetValues.
C10_FacetHitsStored ==
    [][/\ (\E f \in FacetNames, q \in FacetQueries : OnSearchForFacetValues(f, q))
          => store'.searchingForFacetValues
       /\ \A r \in facetInflight :
          FacetValuesSuccess(r)
          => LET old == store.resultsFacetValues.byKey
                 new == store'.resultsFacetValues.byKey
             IN  /\ store'.resultsFacetValues.present
                 /\ r.facetName \in DOMAIN new
                 /\ new[r.facetName] = FacetHits(r)
                 /\ new["query"] = QueryValue(r.query)
                 /\ \A k \in DOMAIN old \ {r.facetName, "query"} :
                       k \in DOMAIN new /\ new[k] = old[k]
                 /\ store'.searchingForFacetValues = FALSE]_vars

\* C11: the results a reader obtained from the store before a response is
\* reconciled are the same value after handleSearchSuccess has run: the
\* handler replaces the results of the state and does not write into the
\* object the earlier snapshot holds.
C11_SnapshotUntouched ==
    [][\A r \in inflight :
          HandleSearchSuccess(r)
          => ResultsHeldBySnapshot(Content(r)) = store.results]_vars

\* a step of an operation that calls search()
SearchTrigger ==
    \/ UpdateClient
    \/ ClearCache
    \/ \E i \in NewIndices : UpdateIndex(i)
    \/ \E w \in Catalog : RegisterWidget(w)
    \/ \E i \in 1..Len(widgets) : UnregisterWidget(i)
    \/ \E s \in SearchStates : OnExternalStateUpdate(s)

\* C12: while skip is set, a widget update, an external state update,
\* updateClient, updateIndex and clearCache dispatch no request and leave the
\* parameters of the helper, the derived helpers and indexMapping unchanged.
C12_SkippedSearchKeepsParameters ==
    [][(skip /\ SearchTrigger)
        => /\ inflight' = inflight
           /\ helperState' = helperState
           /\ derivedHelpers' = derivedHelpers
           /\ indexMapping' = indexMapping]_vars

\* an update ran while skip was set, after a cycle with a derived helper had
\* computed its parameters and got its responses
C12_Witness ==
    /\ skip
    /\ store.searching
    /\ derivedHelpers # EmptyFn
    /\ helperState.trail # <<>>
    /\ \A r \in inflight : ~r.current

\* C13: an error response ends its own request only: the other requests stay
\* in flight and the derived helpers and indexMapping stay as they were; and
\* a successful response of the current cycle reconciled while the error of
\* another response is recorded is written into results (as the results
\* themselves without derived helper, as an entry of the mapping with one).
C13_ErrorTerminalForItsResponseOnly ==
    [][\A r \in inflight :
          /\ HandleSearchError(r)
                => /\ inflight' = inflight \ {r}
                   /\ derivedHelpers' = derivedHelpers
                   /\ indexMapping' = indexMapping
          /\ (r.current /\ store.error = SearchError /\ HandleSearchSuccess(r))
                => IF derivedHelpers = EmptyFn
                   THEN store'.results = MonoResults(Content(r))
                   ELSE \E k \in DOMAIN store'.results.byIndex :
                           store'.results.byIndex[k] = Content(r)]_vars

\* the only cycle so far had a derived helper; its primary request failed
\* first and the derived response, arriving afterwards, is in results
C13_Witness ==
    /\ cycle = 1
    /\ inflight = {}
    /\ store.error = Null
    /\ store.results.shape = "multi"
    /\ DOMAIN store.results.byIndex = {"a"}

\* C14: the failure of a facet-value search leaves the error recorded by the
\* main search as it was, and a main-search response (success or error)
\* leaves the recorded facet-value error as it was.
C14_FacetErrorIsolated ==
    [][/\ \A r \in facetInflight :
             (store.error = SearchError /\ FacetValuesError(r))
             => store'.error = SearchError
       /\ \A r \in inflight :
             (store.error = FacetError
                /\ (HandleSearchSuccess(r) \/ HandleSearchError(r)))
             => store'.error = FacetError]_vars

\* the secondary indices targeted by the contributing widgets, a widget's
\* target being the index of its multi-index context or else its indexName
SecondaryTargets(ws) ==
    {TargetedIndex(ws[i]) : i \in {j \in 1..Len(ws) : ws[j].gsp}}
        \ {None, IndexName}

\* C15: a search() that has run leaves none of the derived helpers of the
\* cycle before and exactly one derived helper per distinct secondary index
\* targeted by the contributing widgets.
C15_DerivedContextsFollowWidgets ==
    [][cycle' # cycle
        => DOMAIN derivedHelpers' = SecondaryTargets(widgets')]_vars

\* s is a prefix of t
IsPrefix(s, t) == Len(s) <= Len(t) /\ SubSeq(t, 1, Len(s)) = s

\* a contributing widget that is in no derived group
OutsideDerivedGroups(w) == w.gsp /\ ~InDerivedFilter(w)

\* a contributing widget without multi-index context whose indexName prop
\* is absent or names the primary index
Untargeted(w) == w.gsp /\ w.ctx = None /\ w.prop \in {None, IndexName}

\* a contributing widget whose context or prop names the primary index
OnPrimary(w) == w.gsp /\ (w.ctx = IndexName \/ w.prop = IndexName)

\* the contributing widgets of the derived group of index t
InGroup(ws, t) ==
    LET Member(w) == w.gsp /\ InDerivedFilter(w) /\ TargetedIndex(w) = t
    IN  SelectSeq(ws, Member)

C17_SharedAndDerivedDisjoint ==
    cycle > 0 =>
        \A i \in 1..Len(widgets) :
            LET w == widgets[i]
            IN  /\ w.gsp =>
                    ~(/\ Occurrences(w, SharedWidgets(widgets)) > 0
                      /\ GroupOccurrences(w, DerivatedWidgets(widgets)) > 0)
                /\ ~w.gsp =>
                    /\ FoldCount(w, widgets) = 0
                    /\ w \notin SeqRange(helperState.trail)
                    /\ \A t \in DOMAIN derivedHelpers :
                          w \notin SeqRange(derivedHelpers[t].trail)

\* a search over a widget without contribution next to a widget that has an
\* indexName prop on a secondary index and no multi-index context
C17_Witness ==
    /\ cycle > 0
    /\ derivedHelpers # EmptyFn
    /\ \E i, j \in 1..Len(widgets) :
          /\ ~widgets[i].gsp
          /\ widgets[j].gsp
          /\ widgets[j].ctx = None
          /\ widgets[j].prop \notin {None, IndexName}

\* C18: while a request of the latest search cycle has not been answered,
\* searching is true.
C18_SearchingWhileOutstanding ==
    (\E r \in inflight : r.current) => store.searching

\* C19: the state written by handleSearchSuccess and by handleSearchError has
\* no resultsFacetValues field, whatever facet-value results were stored.
C19_ResponseDropsFacetValues ==
    [][\A r \in inflight :
          (HandleSearchSuccess(r) \/ HandleSearchError(r))
          => store'.resultsFacetValues = Absent]_vars

\* facet-value results of two facets are stored while a main-search response
\* is outstanding: the response that comes next removes them
C19_Witness ==
    /\ store.resultsFacetValues.present
    /\ {"brand", "category"} \subseteq DOMAIN store.resultsFacetValues.byKey
    /\ \E r \in inflight : r.current

\* a step of onWidgetsUpdate or onExternalStateUpdate
UpdateStep ==
    \/ \E w \in Catalog : RegisterWidget(w)
    \/ \E i \in 1..Len(widgets) : UnregisterWidget(i)
    \/ \E s \in SearchStates : OnExternalStateUpdate(s)

\* C20: once skip is set it stays set; from then on no step starts a search
\* cycle or puts a request in flight, and a widget update or an external
\* state update still sets searching.
C20_SkipIsPermanent ==
    [][skip
        => /\ skip'
           /\ cycle' = cycle
           /\ inflight' \subseteq inflight
           /\ UpdateStep => store'.searching]_vars

\* skipSearch was called before any search; a later external state update
\* has set searching and no cycle has ever started
C20_Witness ==
    /\ skip
    /\ cycle = 0
    /\ inflight = {}
    /\ store.widgets = "st1"
    /\ store.searching

====
